---- MODULE Spec2Model ----
(* Model of easyfix-session/src/connection.rs: the process-wide sender      *)
(* registry, the acceptor and initiator bootstrap functions, and the input  *)
(* and output loops of a Connection joined by tokio::try_join!.             *)
(* One step of the model is the code a future runs between two suspension   *)
(* points (.await): the scheduler is single-threaded and cooperative.       *)
EXTENDS Integers, Sequences, FiniteSets, TLC

\* ------------------------------------------------------------------ bounds
MaxEvents == 3      \* events the loops of all connections take in one run
MaxSend == 1        \* calls of send / send_raw in one run

\* ------------------------------------------------------------- value sets
Conns == {"c1", "c2"}                      \* concurrently running bootstrap calls
SessionIds == {"s1", "s2", "sx"}      \* identities a message can carry
Configured == {"s1", "s2"}            \* identities known to SessionsMap
Bodies == {"m1", "m2"}                \* message payloads
None == "none"
\* Box<Message> and Box<FixtMessage> values; a FixtMessage carries its identity
Msg(body) == [kind |-> "msg", sid |-> "-", body |-> body]
RawMsg(session_id, body) == [kind |-> "raw", sid |-> session_id, body |-> body]
NoMsg == [kind |-> "none", sid |-> "-", body |-> "-"]

DisconnectReasons == {"ConnectionLost", "Logout"}

\* InputEvent of input_stream; "End" is the stream yielding None
InputEvents == {"Message", "DeserializeError", "IoError", "Timeout", "End"}
\* outcomes of timeout(logon_timeout, stream.next()), Elapsed is Err(_)
FirstOutcomes == InputEvents \cup {"Elapsed"}
\* OutputEvent of output_stream; "End" is the stream yielding None
OutputKinds == {"Message", "Timeout", "Disconnect", "End"}

\* Result<(), Error> of Session::on_io_error: it reports the error it was
\* given as the failure of the loop
OnIoErrorResult == {"Err"}
\* Option<Disconnect> of Session::on_message_in
OnMessageInResult == {"None", "Disconnect"}
\* Result of sink.write_all / sink.flush
IoResult == {"Ok", "Err"}

VARIABLES
  senders,    \* SENDERS: SessionId -> the connection whose channel the Sender feeds
  active,     \* active_sessions: SessionId -> the connection whose Session it holds
  chan,       \* per connection, the messages enqueued on its unbounded channel
  sendRes,    \* what the last send / send_raw call returned
  nsend,      \* calls of send / send_raw so far
  role,       \* per connection: acceptor or initiator
  pc,         \* per connection: position of the bootstrap function
  sid,        \* per connection: session_id
  inPc,       \* per connection: position of input_loop
  outPc,      \* per connection: position of output_loop
  reason,     \* per connection: reason of the Disconnect being processed
  ret,        \* per connection: the local ret, result of try_join!
  result,     \* per connection: value the bootstrap function returned
  log,        \* per connection: calls and effects in the order they happened
  taken       \* events taken by the loops so far

vars == <<senders, active, chan, sendRes, nsend, role, pc, sid, inPc, outPc,
          reason, ret, result, log, taken>>

\* ------------------------------------------------------------ log entries
Entry(op, by, arg) == [op |-> op, by |-> by, arg |-> arg]
Call(hook, by) == Entry(hook, by, "-")
Event(by, ev) == Entry("event", by, ev)
\* the value a hook returned, for the hooks whose value the caller looks at
Returned(hook, by, r) == Entry("ret:" \o hook, by, r)

\* --------------------------------------------------------- sender registry
\* variant: insert replaces an existing entry
register_sender_overwrite(s, session_id, sender) == [s EXCEPT ![session_id] = sender]

register_sender(s, session_id, sender) ==
  IF s[session_id] = None THEN [s EXCEPT ![session_id] = sender] ELSE s

\* variant: the entry is left in place
unregister_sender_keep(s, session_id) == s

unregister_sender(s, session_id) == [s EXCEPT ![session_id] = None]

sender(s, session_id) == s[session_id]

\* SessionId::from_input_msg: the identity a message carries
from_input_msg(msg) == msg.sid

\* SessionsMap::get_session: Some for a configured identity
get_session(session_id) == session_id \in Configured

\* ActiveSessionsMap is a HashMap: insert replaces, remove deletes
active_insert(a, session_id, session) == [a EXCEPT ![session_id] = session]
\* variant: the session is left in the table
active_remove_keep(a, session_id) == a

active_remove(a, session_id) == [a EXCEPT ![session_id] = None]

\* ---------------------------------------------------------------- Init
\* the state before the bootstrap functions of the connections in running
\* are called; the other connections never start
InitWith(running) ==
  /\ senders = [i \in SessionIds |-> None]
  /\ active = [i \in SessionIds |-> None]
  /\ chan = [c \in Conns |-> <<>>]
  /\ sendRes = [id |-> None, arg |-> NoMsg, ok |-> TRUE, err |-> NoMsg]
  /\ nsend = 0
  /\ role \in [Conns -> {"acceptor", "initiator", "absent"}]
  /\ \A c \in Conns : (role[c] = "absent") <=> (c \notin running)
  /\ pc = [c \in Conns |-> "start"]
  \* the initiator is given its session_settings, the acceptor learns the
  \* identity from the first message
  /\ sid \in [Conns -> Configured \cup {None}]
  /\ \A c \in Conns : (role[c] = "initiator") <=> (sid[c] # None)
  /\ inPc = [c \in Conns |-> "idle"]
  /\ outPc = [c \in Conns |-> "idle"]
  /\ reason = [c \in Conns |-> None]
  /\ ret = [c \in Conns |-> None]
  /\ result = [c \in Conns |-> None]
  /\ log = [c \in Conns |-> <<>>]
  /\ taken = 0

\* one connection, every event of its two loops
Init == InitWith({"c1"})

\* two connections that share the registry and the active-sessions table
InitMulti == InitWith(Conns)

Append1(c, entries) == [log EXCEPT ![c] = @ \o entries]

\* ------------------------------------------------------- send / send_raw
\* variant: the message is not handed to the sender
Enqueue_dropped(ch, to, msg) == ch

\* Sender::send / Sender::send_raw put the message on the unbounded channel
Enqueue(ch, to, msg) == [ch EXCEPT ![to] = Append(@, msg)]

\* lines 66-73; sendRes keeps the arguments and the value returned
send(session_id, msg) ==
  /\ nsend < MaxSend
  /\ nsend' = nsend + 1
  /\ IF sender(senders, session_id) # None
     THEN /\ chan' = Enqueue(chan, sender(senders, session_id), msg)
          /\ sendRes' = [id |-> session_id, arg |-> msg, ok |-> TRUE, err |-> NoMsg]
     ELSE /\ sendRes' = [id |-> session_id, arg |-> msg, ok |-> FALSE, err |-> msg]
          /\ UNCHANGED chan
  /\ UNCHANGED <<senders, active, role, pc, sid, inPc, outPc, reason, ret,
                 result, log, taken>>

\* lines 75-82
send_raw(msg) ==
  /\ nsend < MaxSend
  /\ nsend' = nsend + 1
  /\ IF sender(senders, from_input_msg(msg)) # None
     THEN /\ chan' = Enqueue(chan, sender(senders, from_input_msg(msg)), msg)
          /\ sendRes' = [id |-> from_input_msg(msg), arg |-> msg, ok |-> TRUE,
                         err |-> NoMsg]
     ELSE /\ sendRes' = [id |-> from_input_msg(msg), arg |-> msg, ok |-> FALSE,
                         err |-> msg]
          /\ UNCHANGED chan
  /\ UNCHANGED <<senders, active, role, pc, sid, inPc, outPc, reason, ret,
                 result, log, taken>>

\* ------------------------------------------------------------ first_msg
\* variant: the catch-all arm reports the failure as an I/O error
first_msg_catch_all_io(outcome) ==
  CASE outcome = "Message" -> "Ok"
    [] outcome = "IoError" -> "Io"
    [] outcome = "DeserializeError" -> "LogonNeverReceived"
    [] OTHER -> "Io"

\* Result of first_msg for each outcome of the timed wait
first_msg(outcome) ==
  CASE outcome = "Message" -> "Ok"
    [] outcome = "IoError" -> "Io"
    [] outcome = "DeserializeError" -> "LogonNeverReceived"
    [] OTHER -> "LogonNeverReceived"

\* ------------------------------------------------- acceptor_connection
\* variant: register_sender is called before the session is looked up
AcceptorFirstMsg_registers_first(c, outcome, msg) ==
  /\ role[c] = "acceptor"
  /\ pc[c] = "start"
  /\ IF first_msg(outcome) # "Ok"
     THEN /\ pc' = [pc EXCEPT ![c] = "returned"]
          /\ result' = [result EXCEPT ![c] = first_msg(outcome)]
          /\ log' = Append1(c, <<Event("boot", outcome)>>)
          /\ UNCHANGED <<senders, active, sid>>
     ELSE /\ sid' = [sid EXCEPT ![c] = from_input_msg(msg)]
          /\ senders' = register_sender(senders, from_input_msg(msg), c)
          /\ IF ~get_session(from_input_msg(msg))
             THEN /\ pc' = [pc EXCEPT ![c] = "returned"]
                  /\ result' = [result EXCEPT ![c] = "UnknownSession"]
                  /\ log' = Append1(c, <<Event("boot", outcome)>>)
                  /\ UNCHANGED active
             ELSE /\ active' = active_insert(active, from_input_msg(msg), c)
                  /\ log' = Append1(c, <<Event("boot", outcome),
                                         Call("register_sender", "boot"),
                                         Call("active_insert", "boot"),
                                         Call("on_message_in", "boot")>>)
                  /\ pc' = [pc EXCEPT ![c] = "first_on_message_in"]
                  /\ UNCHANGED result
  /\ UNCHANGED <<chan, sendRes, nsend, role, inPc, outPc, reason, ret, taken>>

\* variant: the first message is handed to on_message_in before the session
\* is put into the two tables
AcceptorFirstMsg_delivers_first(c, outcome, msg) ==
  /\ role[c] = "acceptor"
  /\ pc[c] = "start"
  /\ IF first_msg(outcome) # "Ok"
     THEN /\ pc' = [pc EXCEPT ![c] = "returned"]
          /\ result' = [result EXCEPT ![c] = first_msg(outcome)]
          /\ log' = Append1(c, <<Event("boot", outcome)>>)
          /\ UNCHANGED <<senders, active, sid>>
     ELSE /\ sid' = [sid EXCEPT ![c] = from_input_msg(msg)]
          /\ IF ~get_session(from_input_msg(msg))
             THEN /\ pc' = [pc EXCEPT ![c] = "returned"]
                  /\ result' = [result EXCEPT ![c] = "UnknownSession"]
                  /\ log' = Append1(c, <<Event("boot", outcome)>>)
                  /\ UNCHANGED <<senders, active>>
             ELSE /\ log' = Append1(c, <<Event("boot", outcome),
                                         Call("on_message_in", "boot")>>)
                  /\ pc' = [pc EXCEPT ![c] = "first_on_message_in"]
                  /\ UNCHANGED <<senders, active, result>>
  /\ UNCHANGED <<chan, sendRes, nsend, role, inPc, outPc, reason, ret, taken>>

\* lines 114-153: wait for the first message, look the session up, register
\* it in both tables and hand the first message to on_message_in
AcceptorFirstMsg(c, outcome, msg) ==
  /\ role[c] = "acceptor"
  /\ pc[c] = "start"
  /\ IF first_msg(outcome) # "Ok"
     THEN /\ pc' = [pc EXCEPT ![c] = "returned"]
          /\ result' = [result EXCEPT ![c] = first_msg(outcome)]
          /\ log' = Append1(c, <<Event("boot", outcome)>>)
          /\ UNCHANGED <<senders, active, sid>>
     ELSE /\ sid' = [sid EXCEPT ![c] = from_input_msg(msg)]
          /\ IF ~get_session(from_input_msg(msg))
             THEN /\ pc' = [pc EXCEPT ![c] = "returned"]
                  /\ result' = [result EXCEPT ![c] = "UnknownSession"]
                  /\ log' = Append1(c, <<Event("boot", outcome)>>)
                  /\ UNCHANGED <<senders, active>>
             ELSE /\ senders' = register_sender(senders, from_input_msg(msg), c)
                  /\ active' = active_insert(active, from_input_msg(msg), c)
                  /\ log' = Append1(c, <<Event("boot", outcome),
                                         Call("register_sender", "boot"),
                                         Call("active_insert", "boot"),
                                         Call("on_message_in", "boot")>>)
                  /\ pc' = [pc EXCEPT ![c] = "first_on_message_in"]
                  /\ UNCHANGED result
  /\ UNCHANGED <<chan, sendRes, nsend, role, inPc, outPc, reason, ret, taken>>

\* lines 150-157: on_message_in completes, its value is dropped; the Created
\* event is handed to the emitter
AcceptorFirstHandled(c, r) ==
  /\ role[c] = "acceptor"
  /\ pc[c] = "first_on_message_in"
  /\ pc' = [pc EXCEPT ![c] = "created"]
  /\ log' = Append1(c, <<Returned("on_message_in", "boot", r)>>)
  /\ UNCHANGED <<senders, active, chan, sendRes, nsend, role, sid, inPc, outPc,
                 reason, ret, result, taken>>

\* lines 155-176: the emitter took Created; the loops are started
AcceptorEnterLoops(c) ==
  /\ role[c] = "acceptor"
  /\ pc[c] = "created"
  /\ pc' = [pc EXCEPT ![c] = "loops"]
  /\ inPc' = [inPc EXCEPT ![c] = "next"]
  /\ outPc' = [outPc EXCEPT ![c] = "next"]
  /\ log' = Append1(c, <<Call("created", "boot")>>)
  /\ UNCHANGED <<senders, active, chan, sendRes, nsend, role, sid, reason, ret,
                 result, taken>>

\* ------------------------------------------------ initiator_connection
\* lines 196-225: register in both tables, hand Created to the emitter
InitiatorRegister(c) ==
  /\ role[c] = "initiator"
  /\ pc[c] = "start"
  /\ senders' = register_sender(senders, sid[c], c)
  /\ active' = active_insert(active, sid[c], c)
  /\ log' = Append1(c, <<Call("register_sender", "boot"),
                         Call("active_insert", "boot")>>)
  /\ pc' = [pc EXCEPT ![c] = "created"]
  /\ UNCHANGED <<chan, sendRes, nsend, role, sid, inPc, outPc, reason, ret,
                 result, taken>>

\* variant: the loops are started without send_logon_request
InitiatorEnterLoops_no_logon(c) ==
  /\ role[c] = "initiator"
  /\ pc[c] = "created"
  /\ pc' = [pc EXCEPT ![c] = "loops"]
  /\ inPc' = [inPc EXCEPT ![c] = "next"]
  /\ outPc' = [outPc EXCEPT ![c] = "next"]
  /\ log' = Append1(c, <<Call("created", "boot")>>)
  /\ UNCHANGED <<senders, active, chan, sendRes, nsend, role, sid, reason, ret,
                 result, taken>>

\* lines 223-248: the emitter took Created; send_logon_request, then the loops
InitiatorEnterLoops(c) ==
  /\ role[c] = "initiator"
  /\ pc[c] = "created"
  /\ pc' = [pc EXCEPT ![c] = "loops"]
  /\ inPc' = [inPc EXCEPT ![c] = "next"]
  /\ outPc' = [outPc EXCEPT ![c] = "next"]
  /\ log' = Append1(c, <<Call("created", "boot"),
                         Call("send_logon_request", "boot")>>)
  /\ UNCHANGED <<senders, active, chan, sendRes, nsend, role, sid, reason, ret,
                 result, taken>>

\* ---------------------------------------------------------- try_join!
\* variant: resolves as soon as either future finished, as a select would
try_join_first_done(inR, outR) ==
  IF inR = "Err" \/ outR = "Err" THEN "Err"
  ELSE IF inR = "Ok" \/ outR = "Ok" THEN "Ok"
  ELSE "Pending"

\* tokio::try_join! of the two loop futures: the first Err resolves it at
\* once, Ok needs both futures to be Ok
try_join(inR, outR) ==
  IF inR = "Err" \/ outR = "Err" THEN "Err"
  ELSE IF inR = "Ok" /\ outR = "Ok" THEN "Ok"
  ELSE "Pending"

Finished(p) == p \in {"Ok", "Err"}

\* variant: the other future is left running when try_join! resolves
LoopReturns_keeps_other(c, loop, r, entries) ==
  LET inR == IF loop = "in" THEN r ELSE inPc[c]
      outR == IF loop = "out" THEN r ELSE outPc[c]
      j == try_join(inR, outR)
  IN IF j = "Pending"
     THEN /\ inPc' = [inPc EXCEPT ![c] = inR]
          /\ outPc' = [outPc EXCEPT ![c] = outR]
          /\ log' = Append1(c, entries)
          /\ UNCHANGED <<pc, ret>>
     ELSE /\ inPc' = [inPc EXCEPT ![c] = inR]
          /\ outPc' = [outPc EXCEPT ![c] = outR]
          /\ ret' = [ret EXCEPT ![c] = j]
          /\ pc' = [pc EXCEPT ![c] = "on_disconnect"]
          /\ log' = Append1(c, entries \o <<Call("on_disconnect", "boot")>>)

\* A loop future returns r after logging entries. When that resolves
\* try_join! the other future is dropped where it stands and, in the same
\* poll, the bootstrap goes on to line 179/251 and calls on_disconnect.
\* A loop acts only from a position of its own code, so a dropped loop never
\* acts again.
LoopReturns(c, loop, r, entries) ==
  LET inR == IF loop = "in" THEN r ELSE inPc[c]
      outR == IF loop = "out" THEN r ELSE outPc[c]
      j == try_join(inR, outR)
  IN IF j = "Pending"
     THEN /\ inPc' = [inPc EXCEPT ![c] = inR]
          /\ outPc' = [outPc EXCEPT ![c] = outR]
          /\ log' = Append1(c, entries)
          /\ UNCHANGED <<pc, ret>>
     ELSE /\ inPc' = [inPc EXCEPT ![c] = IF Finished(inR) THEN inR ELSE "dropped"]
          /\ outPc' = [outPc EXCEPT ![c] = IF Finished(outR) THEN outR ELSE "dropped"]
          /\ ret' = [ret EXCEPT ![c] = j]
          /\ pc' = [pc EXCEPT ![c] = "on_disconnect"]
          /\ log' = Append1(c, entries \o <<Call("on_disconnect", "boot")>>)

\* ---------------------------------------------------------- input_loop
\* the hook the match of lines 267-279 awaits for an event
InputHook(ev) ==
  CASE ev = "Message" -> "on_message_in"
    [] ev = "DeserializeError" -> "on_deserialize_error"
    [] ev = "IoError" -> "on_io_error"
    [] ev = "Timeout" -> "on_in_timeout"

\* the values a hook of the input loop can return
InputHookResults(hook) ==
  CASE hook = "on_message_in" -> OnMessageInResult
    [] hook = "on_io_error" -> OnIoErrorResult
    [] OTHER -> {"-"}

\* variant: the IoError arm does not return
InputAfter_io_continues(hook, r) ==
  CASE hook = "on_message_in" -> IF r = "Disconnect" THEN "Ok" ELSE "next"
    [] hook = "on_deserialize_error" -> "next"
    [] hook = "on_io_error" -> "next"
    [] hook = "on_in_timeout" -> "next"

\* variant: a decode error ends the loop with a failure
InputAfter_deserialize_fails(hook, r) ==
  CASE hook = "on_message_in" -> IF r = "Disconnect" THEN "Ok" ELSE "next"
    [] hook = "on_deserialize_error" -> "Err"
    [] hook = "on_io_error" -> r
    [] hook = "on_in_timeout" -> "next"

\* variant: the value of on_message_in is dropped
InputAfter_ignores_disconnect(hook, r) ==
  CASE hook = "on_message_in" -> "next"
    [] hook = "on_deserialize_error" -> "next"
    [] hook = "on_io_error" -> r
    [] hook = "on_in_timeout" -> "next"

\* what the loop does once the awaited hook returned r: take the next
\* event, or return
InputAfter(hook, r) ==
  CASE hook = "on_message_in" -> IF r = "Disconnect" THEN "Ok" ELSE "next"
    [] hook = "on_deserialize_error" -> "next"
    [] hook = "on_io_error" -> r
    [] hook = "on_in_timeout" -> "next"

\* line 266: input_stream.next() yields ev
InputNext(c, ev) ==
  /\ inPc[c] = "next"
  /\ taken < MaxEvents
  /\ taken' = taken + 1
  /\ IF ev = "End"
     THEN LoopReturns(c, "in", "Ok", <<Event("in", ev)>>)
     ELSE /\ inPc' = [inPc EXCEPT ![c] = InputHook(ev)]
          /\ log' = Append1(c, <<Event("in", ev), Call(InputHook(ev), "in")>>)
          /\ UNCHANGED <<pc, ret, outPc>>
  /\ UNCHANGED <<senders, active, chan, sendRes, nsend, role, sid, reason, result>>

InputHooks == {"on_message_in", "on_deserialize_error", "on_io_error", "on_in_timeout"}

\* the hook the input loop awaits returns r
InputHookDone(c, r) ==
  /\ inPc[c] \in InputHooks
  /\ r \in InputHookResults(inPc[c])
  /\ LET entries == IF r = "-" THEN <<>> ELSE <<Returned(inPc[c], "in", r)>>
     IN IF InputAfter(inPc[c], r) = "next"
        THEN /\ inPc' = [inPc EXCEPT ![c] = "next"]
             /\ log' = Append1(c, entries)
             /\ UNCHANGED <<pc, ret, outPc>>
        ELSE LoopReturns(c, "in", InputAfter(inPc[c], r), entries)
  /\ UNCHANGED <<senders, active, chan, sendRes, nsend, role, sid, reason,
                 result, taken>>

\* --------------------------------------------------------- output_loop
\* what the match of lines 290-308 (or line 310 after the stream ended)
\* awaits first for an event
OutputFirst(kind) ==
  CASE kind = "Message" -> "write_all"
    [] kind = "Timeout" -> "on_out_timeout"
    [] kind = "Disconnect" -> "flush"
    [] kind = "End" -> "emit_logout"

\* the operation the output loop awaits: a write, a flush or a hook
OutputOps == {"write_all", "flush", "on_out_timeout", "on_io_error", "emit_logout"}

OutputOpResults(op) ==
  CASE op = "write_all" -> IoResult
    [] op = "flush" -> IoResult
    [] op = "on_io_error" -> OnIoErrorResult
    [] OTHER -> {"-"}

\* variant: the Disconnect arm falls through to the next event
OutputAfter_no_return(op, r) ==
  CASE op = "write_all" -> IF r = "Err" THEN "on_io_error" ELSE "next"
    [] op = "on_out_timeout" -> "next"
    [] op = "flush" -> "emit_logout"
    [] op = "emit_logout" -> "next"
    [] op = "on_io_error" -> r

\* what the loop does once the awaited operation returned r: await another
\* operation, take the next event, or return
OutputAfter(op, r) ==
  CASE op = "write_all" -> IF r = "Err" THEN "on_io_error" ELSE "next"
    [] op = "on_out_timeout" -> "next"
    [] op = "flush" -> "emit_logout"
    [] op = "emit_logout" -> "Ok"
    [] op = "on_io_error" -> r

\* variant: emit_logout is always given the default reason
LogoutReason_always_default(kind, rsn) == "ConnectionLost"

\* the reason emit_logout is given: the Disconnect's, or the default of
\* line 311 when the stream ended
LogoutReason(kind, rsn) == IF kind = "Disconnect" THEN rsn ELSE "ConnectionLost"

OutputEntry(op, rsn) ==
  IF op = "emit_logout" THEN Entry("emit_logout", "out", rsn) ELSE Call(op, "out")

\* the event as the output stream yielded it: a Disconnect carries its reason
OutputEvent(kind, rsn) ==
  IF kind = "Disconnect" THEN Event("out", "Disconnect:" \o rsn) ELSE Event("out", kind)

\* line 289: output_stream.next() yields an event of this kind
OutputNext(c, kind, rsn) ==
  /\ outPc[c] = "next"
  /\ taken < MaxEvents
  /\ taken' = taken + 1
  /\ outPc' = [outPc EXCEPT ![c] = OutputFirst(kind)]
  /\ reason' = [reason EXCEPT ![c] = LogoutReason(kind, rsn)]
  /\ log' = Append1(c, <<OutputEvent(kind, rsn),
                         OutputEntry(OutputFirst(kind), LogoutReason(kind, rsn))>>)
  /\ UNCHANGED <<senders, active, chan, sendRes, nsend, role, pc, sid, inPc,
                 ret, result>>

\* the operation the output loop awaits returns r
OutputOpDone(c, r) ==
  /\ outPc[c] \in OutputOps
  /\ r \in OutputOpResults(outPc[c])
  /\ LET after == OutputAfter(outPc[c], r)
         entries == IF r = "-" THEN <<>> ELSE <<Returned(outPc[c], "out", r)>>
     IN CASE after = "next" ->
               /\ outPc' = [outPc EXCEPT ![c] = "next"]
               /\ log' = Append1(c, entries)
               /\ UNCHANGED <<pc, ret, inPc>>
          [] after \in OutputOps ->
               /\ outPc' = [outPc EXCEPT ![c] = after]
               /\ log' = Append1(c, entries \o <<OutputEntry(after, reason[c])>>)
               /\ UNCHANGED <<pc, ret, inPc>>
          [] OTHER -> LoopReturns(c, "out", after, entries)
  /\ UNCHANGED <<senders, active, chan, sendRes, nsend, role, sid, reason,
                 result, taken>>

\* ------------------------------------------------------------- cleanup
\* lines 179-182 / 251-254: on_disconnect returned; drop the identity from
\* both tables and return the joint result
\* variant: the two removals in the other order
CleanupOps_swapped == <<"active_remove", "unregister_sender">>

CleanupOps == <<"unregister_sender", "active_remove">>

ApplyCleanup(op, tables, session_id) ==
  CASE op = "unregister_sender" ->
         [tables EXCEPT !.senders = unregister_sender(@, session_id)]
    [] op = "active_remove" ->
         [tables EXCEPT !.active = active_remove(@, session_id)]

RECURSIVE RunCleanup(_, _, _)
RunCleanup(ops, tables, session_id) ==
  IF ops = <<>> THEN tables
  ELSE RunCleanup(Tail(ops), ApplyCleanup(Head(ops), tables, session_id), session_id)

\* ret.map(|_| ())
Returns(r) == r

Cleanup(c) ==
  /\ pc[c] = "on_disconnect"
  /\ LET t == RunCleanup(CleanupOps, [senders |-> senders, active |-> active], sid[c])
     IN /\ senders' = t.senders
        /\ active' = t.active
  /\ log' = Append1(c, [i \in 1..Len(CleanupOps) |-> Call(CleanupOps[i], "boot")])
  /\ result' = [result EXCEPT ![c] = Returns(ret[c])]
  /\ pc' = [pc EXCEPT ![c] = "returned"]
  /\ UNCHANGED <<chan, sendRes, nsend, role, sid, inPc, outPc, reason, ret, taken>>

\* ------------------------------------------------------------------ Next
RawMsgs == {RawMsg(i, b) : i \in SessionIds, b \in Bodies}
Msgs == {Msg(b) : b \in Bodies}

FirstMsgs == {RawMsg(i, "logon") : i \in SessionIds}
InputResults == OnMessageInResult \cup OnIoErrorResult \cup {"-"}
OutputResults == IoResult \cup OnIoErrorResult \cup {"-"}

Next ==
  \/ \E c \in Conns, o \in FirstOutcomes, m \in FirstMsgs : AcceptorFirstMsg(c, o, m)
  \/ \E c \in Conns, r \in OnMessageInResult : AcceptorFirstHandled(c, r)
  \/ \E c \in Conns : AcceptorEnterLoops(c)
  \/ \E c \in Conns : InitiatorRegister(c)
  \/ \E c \in Conns : InitiatorEnterLoops(c)
  \/ \E c \in Conns, ev \in InputEvents : InputNext(c, ev)
  \/ \E c \in Conns, r \in InputResults : InputHookDone(c, r)
  \/ \E c \in Conns, k \in OutputKinds, rsn \in DisconnectReasons : OutputNext(c, k, rsn)
  \/ \E c \in Conns, r \in OutputResults : OutputOpDone(c, r)
  \/ \E c \in Conns : Cleanup(c)

Spec == Init /\ [][Next]_vars

\* Two connections sharing the two tables. The loops never touch the tables,
\* so here they are only given the events that end them.
MultiInputEvents == {"IoError", "End"}
MultiOutputKinds == {"Disconnect", "End"}
MultiFirstOutcomes == {"Message", "Elapsed"}

NextMulti ==
  \/ \E c \in Conns, o \in MultiFirstOutcomes, m \in FirstMsgs : AcceptorFirstMsg(c, o, m)
  \/ \E c \in Conns : AcceptorFirstHandled(c, "None")
  \/ \E c \in Conns : AcceptorEnterLoops(c)
  \/ \E c \in Conns : InitiatorRegister(c)
  \/ \E c \in Conns : InitiatorEnterLoops(c)
  \/ \E c \in Conns, ev \in MultiInputEvents : InputNext(c, ev)
  \/ \E c \in Conns, r \in InputResults : InputHookDone(c, r)
  \/ \E c \in Conns, k \in MultiOutputKinds : OutputNext(c, k, "Logout")
  \/ \E c \in Conns, r \in {"Ok", "-"} : OutputOpDone(c, r)
  \/ \E c \in Conns : Cleanup(c)

SpecMulti == InitMulti /\ [][NextMulti]_vars

\* Two connections and third parties calling send / send_raw; each input loop
\* is ended by an I/O error.
NextReg ==
  \/ \E i \in SessionIds, m \in Msgs : send(i, m)
  \/ \E m \in RawMsgs : send_raw(m)
  \/ \E c \in Conns, o \in MultiFirstOutcomes, m \in FirstMsgs : AcceptorFirstMsg(c, o, m)
  \/ \E c \in Conns : AcceptorFirstHandled(c, "None")
  \/ \E c \in Conns : AcceptorEnterLoops(c)
  \/ \E c \in Conns : InitiatorRegister(c)
  \/ \E c \in Conns : InitiatorEnterLoops(c)
  \/ \E c \in Conns : InputNext(c, "IoError")
  \/ \E c \in Conns : InputHookDone(c, "Err")
  \/ \E c \in Conns : Cleanup(c)

SpecReg == InitMulti /\ [][NextReg]_vars

TypeOK ==
  /\ senders \in [SessionIds -> Conns \cup {None}]
  /\ active \in [SessionIds -> Conns \cup {None}]
  /\ taken \in 0..MaxEvents
  /\ nsend \in 0..MaxSend

\* ================================================================ claims
\* the entries of a log made by one of "boot", "in", "out"
Proj(lg, by) == SelectSeq(lg, LAMBDA e : e.by = by)
CountOp(lg, op) == Cardinality({i \in DOMAIN lg : lg[i].op = op})
\* the bootstrap function returned after the loops had run
ReturnedAfterLoops(c) == pc[c] = "returned" /\ ret[c] # None

\* C1: every connection that reached the loop phase has called emit_logout
\* exactly once when its bootstrap function returns. The code does not: a loop
\* that ends through on_io_error never calls emit_logout.
C1_LogoutExactlyOnce ==
  \A c \in Conns : ReturnedAfterLoops(c) => CountOp(log[c], "emit_logout") = 1

\* C2: emit_logout is never called more than once for one connection.
C2_LogoutAtMostOnce ==
  \A c \in Conns : CountOp(log[c], "emit_logout") <= 1

C2_Witness ==
  \E c \in Conns : /\ ReturnedAfterLoops(c)
                   /\ CountOp(log[c], "emit_logout") = 1
                   /\ CountOp(Proj(log[c], "in"), "event") >= 1
                   /\ CountOp(Proj(log[c], "out"), "event") >= 1

\* C3: in the step in which a bootstrap function returns after the loop phase,
\* its SessionId is left absent from the sender registry and from the
\* active-sessions table.
C3_AbsentOnReturn ==
  [][\A c \in Conns :
       (pc[c] = "on_disconnect" /\ pc'[c] = "returned")
         => (senders'[sid[c]] = None /\ active'[sid[c]] = None)]_vars

C3_Witness ==
  \E c, d \in Conns : /\ c # d
                      /\ ReturnedAfterLoops(c)
                      /\ pc[d] = "loops"
                      /\ sid[d] = sid[c]
                      /\ senders[sid[c]] = None
                      /\ active[sid[c]] = None

\* C4: the cleanup runs once, after everything the loops did, in the order
\* on_disconnect, registry removal, active-table removal; the value returned
\* is the joint result of the loops.
CleanupSeq == <<Call("on_disconnect", "boot"), Call("unregister_sender", "boot"),
                Call("active_remove", "boot")>>
IsCleanup(e) == e \in {CleanupSeq[i] : i \in DOMAIN CleanupSeq}
IsPrefix(p, q) == Len(p) <= Len(q) /\ SubSeq(q, 1, Len(p)) = p

C4_CleanupOnceInOrder ==
  \A c \in Conns :
    /\ IsPrefix(SelectSeq(log[c], IsCleanup), CleanupSeq)
    /\ ReturnedAfterLoops(c) =>
         /\ Len(log[c]) >= 3
         /\ SubSeq(log[c], Len(log[c]) - 2, Len(log[c])) = CleanupSeq
         /\ SelectSeq(log[c], IsCleanup) = CleanupSeq
         /\ result[c] = (IF inPc[c] = "Err" \/ outPc[c] = "Err" THEN "Err" ELSE "Ok")

C4_Witness ==
  \E c \in Conns : /\ ReturnedAfterLoops(c)
                   /\ result[c] = "Err"
                   /\ outPc[c] = "dropped"

\* C5: a registry entry is only ever made for an identity that has none, by
\* the connection registering itself, and stays the same until it is removed;
\* send for a registered identity enqueues the message on the channel of
\* that first-registered sender and returns Ok.
C5_FirstRegistrationWins ==
  [][\A i \in SessionIds :
       /\ (senders[i] # None /\ senders'[i] # None) => senders'[i] = senders[i]
       /\ (senders[i] = None /\ senders'[i] # None)
            => (pc[senders'[i]] = "start" /\ sid'[senders'[i]] = i)
       /\ (nsend' # nsend /\ sendRes'.id = i /\ senders[i] # None)
            => /\ sendRes'.ok
               /\ chan' = [chan EXCEPT ![senders[i]] = Append(@, sendRes'.arg)]]_vars

\* both connections registered the identity, the first one holds the entry
\* (the active table, which insert replaces, holds the second) and got the
\* message
C5_Witness ==
  \E c, d \in Conns :
    /\ c # d
    /\ sid[c] # None /\ sid[d] = sid[c]
    /\ senders[sid[c]] = c
    /\ active[sid[c]] = d
    /\ sendRes.id = sid[c] /\ sendRes.ok
    /\ chan[c] = <<sendRes.arg>>
    /\ chan[d] = <<>>

\* the first input event the acceptor waited for
FirstOutcome(c) == log[c][1].arg
HandshakeOver(c) == role[c] = "acceptor" /\ log[c] # <<>>

\* C6 as stated: every outcome of the first wait other than a decoded message
\* fails the bootstrap with LogonNeverReceived.
C6_AlwaysLogonNeverReceived ==
  \A c \in Conns :
    (HandshakeOver(c) /\ FirstOutcome(c) # "Message")
      => (pc[c] = "returned" /\ result[c] = "LogonNeverReceived")

\* C6 amended: every outcome of the first wait other than a decoded message
\* fails the bootstrap before the loop phase; the failure is
\* LogonNeverReceived for an expired deadline, a decode error and an ended
\* stream, and the I/O error itself for an I/O error event.
C6_FirstWaitFailure ==
  \A c \in Conns :
    (HandshakeOver(c) /\ FirstOutcome(c) # "Message")
      => /\ pc[c] = "returned"
         /\ ret[c] = None
         /\ result[c] = (IF FirstOutcome(c) = "IoError" THEN "Io"
                         ELSE "LogonNeverReceived")

C6_Witness ==
  \E c \in Conns : /\ HandshakeOver(c)
                   /\ FirstOutcome(c) = "IoError"
                   /\ result[c] = "Io"

\* C7: the step in which the acceptor bootstrap fails during the handshake
\* leaves both tables as they were, and the connection has called no session
\* hook and emitted no Created event.
C7_FailedHandshakeFrame ==
  [][\A c \in Conns :
       (role[c] = "acceptor" /\ pc[c] = "start" /\ pc'[c] = "returned")
         => /\ senders' = senders
            /\ active' = active
            /\ \A i \in DOMAIN log'[c] : log'[c][i].op = "event"]_vars

C7_Witness ==
  \E c, d \in Conns : /\ c # d
                      /\ result[c] = "UnknownSession"
                      /\ sid[d] # None
                      /\ senders[sid[d]] = d
                      /\ active[sid[d]] = d

\* the loop's own entries: after the entry at i that reports an I/O failure
\* comes one on_io_error call, then nothing but its Err, which ends the loop
FatalAt(P, i, by, loopPc) ==
  /\ i < Len(P)
  /\ P[i + 1] = Call("on_io_error", by)
  /\ Cardinality({j \in DOMAIN P : P[j] = Call("on_io_error", by)}) = 1
  /\ IF Len(P) = i + 1
     THEN loopPc \in {"on_io_error", "dropped"}
     ELSE /\ Len(P) = i + 2
          /\ P[i + 2] = Returned("on_io_error", by, "Err")
          /\ loopPc = "Err"

\* C8: an IoError event in the input loop and a failed write in the output
\* loop each lead to exactly one on_io_error call, after which the loop takes
\* no further event and ends with Err.
C8_IoFailureIsFatal ==
  \A c \in Conns :
    /\ \A i \in DOMAIN Proj(log[c], "in") :
         Proj(log[c], "in")[i] = Event("in", "IoError")
           => FatalAt(Proj(log[c], "in"), i, "in", inPc[c])
    /\ \A i \in DOMAIN Proj(log[c], "out") :
         Proj(log[c], "out")[i] = Returned("write_all", "out", "Err")
           => FatalAt(Proj(log[c], "out"), i, "out", outPc[c])

C8_Witness ==
  \E c \in Conns :
    /\ inPc[c] = "Err"
    /\ outPc[c] = "dropped"
    /\ \E i \in DOMAIN log[c] : log[c][i] = Returned("write_all", "out", "Err")
    /\ \E i \in DOMAIN log[c] : log[c][i] = Event("in", "IoError")

\* every ev of the loop is followed by one call of hook and every call of
\* hook answers an ev; after the call the loop is in the hook or waiting for
\* the next event, and whatever it does next is taking an event
RecoverableOK(P, by, ev, hook, loopPc) ==
  /\ \A i \in DOMAIN P :
       P[i] = Event(by, ev) => (i < Len(P) /\ P[i + 1] = Call(hook, by))
  /\ \A i \in DOMAIN P :
       P[i] = Call(hook, by)
         => /\ i > 1 /\ P[i - 1] = Event(by, ev)
            /\ IF i = Len(P) THEN loopPc \in {hook, "next", "dropped"}
               ELSE P[i + 1].op = "event"

\* C9: DeserializeError and Timeout in the input loop and Timeout in the
\* output loop each get exactly one call of their hook and never end the loop.
C9_RecoverableEventsContinue ==
  \A c \in Conns :
    /\ RecoverableOK(Proj(log[c], "in"), "in", "DeserializeError",
                     "on_deserialize_error", inPc[c])
    /\ RecoverableOK(Proj(log[c], "in"), "in", "Timeout", "on_in_timeout", inPc[c])
    /\ RecoverableOK(Proj(log[c], "out"), "out", "Timeout", "on_out_timeout",
                     outPc[c])

C9_Witness ==
  \E c \in Conns :
    /\ \E i \in DOMAIN Proj(log[c], "in") :
         /\ Proj(log[c], "in")[i] = Event("in", "DeserializeError")
         /\ i + 2 <= Len(Proj(log[c], "in"))
         /\ Proj(log[c], "in")[i + 2].op = "event"
    /\ \E i \in DOMAIN Proj(log[c], "out") :
         Proj(log[c], "out")[i] = Call("on_out_timeout", "out")
    /\ outPc[c] = "next"

\* C10: once on_message_in returned Disconnect in the input loop, the loop has
\* ended with Ok and does nothing more.
C10_DisconnectEndsInputLoop ==
  \A c \in Conns :
    \A i \in DOMAIN Proj(log[c], "in") :
      Proj(log[c], "in")[i] = Returned("on_message_in", "in", "Disconnect")
        => (i = Len(Proj(log[c], "in")) /\ inPc[c] = "Ok")

C10_Witness ==
  \E c \in Conns :
    /\ inPc[c] = "Ok"
    /\ pc[c] = "loops"
    /\ \E i \in DOMAIN log[c] :
         log[c][i] = Returned("on_message_in", "in", "Disconnect")
    /\ Len(log[c]) > 0 /\ log[c][Len(log[c])].by = "out"

\* C11: an Ok of the output loop comes right after one emit_logout. A
\* Disconnect(reason) is followed by a flush, whose result changes nothing,
\* then by emit_logout with that reason, and by no write; the end of the
\* stream is followed by emit_logout(ConnectionLost).
DisconnectAt(Q, i, rsn, loopPc) ==
  /\ i < Len(Q)
  /\ Q[i + 1] = Call("flush", "out")
  /\ IF Len(Q) = i + 1
     THEN loopPc \in {"flush", "dropped"}
     ELSE /\ Len(Q) = i + 3
          /\ Q[i + 2] \in {Returned("flush", "out", r) : r \in IoResult}
          /\ Q[i + 3] = Entry("emit_logout", "out", rsn)
          /\ loopPc \in {"emit_logout", "Ok", "dropped"}

C11_OkAfterLogout ==
  \A c \in Conns :
    LET Q == Proj(log[c], "out") IN
    /\ \A i \in DOMAIN Q : \A rsn \in DisconnectReasons :
         Q[i] = Event("out", "Disconnect:" \o rsn) => DisconnectAt(Q, i, rsn, outPc[c])
    /\ \A i \in DOMAIN Q :
         Q[i] = Event("out", "End")
           => /\ Len(Q) = i + 1
              /\ Q[i + 1] = Entry("emit_logout", "out", "ConnectionLost")
              /\ outPc[c] \in {"emit_logout", "Ok", "dropped"}
    /\ outPc[c] = "Ok"
         => /\ Q # <<>>
            /\ Q[Len(Q)].op = "emit_logout"
            /\ CountOp(Q, "emit_logout") = 1

C11_Witness ==
  \E c \in Conns :
    /\ outPc[c] = "Ok"
    /\ \E i \in DOMAIN log[c] : log[c][i] = Returned("flush", "out", "Err")
    /\ \E i \in DOMAIN log[c] : log[c][i] = Entry("emit_logout", "out", "Logout")
    /\ \E i \in DOMAIN log[c] : log[c][i] = Call("write_all", "out")

\* the connection is past the joint wait
JoinResolved(c) == pc[c] \in {"on_disconnect", "returned"} /\ ret[c] # None
InLoopPhase(c) == pc[c] = "loops" \/ JoinResolved(c)

\* C12 as stated: the joint wait is resolved as soon as either loop has
\* ended, with Ok or with Err.
C12_ResolvesOnFirstEnd ==
  \A c \in Conns :
    (InLoopPhase(c) /\ (Finished(inPc[c]) \/ Finished(outPc[c]))) => JoinResolved(c)

\* C12 amended: the joint wait is resolved exactly when a loop has ended with
\* Err or both have ended with Ok; after an Ok of one loop alone the
\* connection stays in the loop phase and the other loop keeps running.
C12_ResolvesOnErrOrBothOk ==
  \A c \in Conns :
    InLoopPhase(c) =>
      /\ JoinResolved(c) <=> \/ inPc[c] = "Err" \/ outPc[c] = "Err"
                             \/ (inPc[c] = "Ok" /\ outPc[c] = "Ok")
      /\ JoinResolved(c) =>
           ret[c] = (IF inPc[c] = "Err" \/ outPc[c] = "Err" THEN "Err" ELSE "Ok")
      /\ ~JoinResolved(c) => (inPc[c] # "dropped" /\ outPc[c] # "dropped")

C12_Witness ==
  \E c \in Conns :
    /\ pc[c] = "loops"
    /\ inPc[c] = "Ok"
    /\ outPc[c] = "on_out_timeout"
    /\ \E i \in DOMAIN log[c] :
         log[c][i] = Returned("on_message_in", "in", "Disconnect")

\* C13: once the joint wait is resolved and on_disconnect has been called,
\* neither loop calls a hook, writes or takes an event any more: a loop that
\* was still running is dropped where it stood.
C13_NoLoopActionAfterJoin ==
  [][\A c \in Conns :
       JoinResolved(c)
         => /\ Proj(log'[c], "in") = Proj(log[c], "in")
            /\ Proj(log'[c], "out") = Proj(log[c], "out")
            /\ inPc'[c] = inPc[c] /\ outPc'[c] = outPc[c]
            /\ inPc[c] \in {"Ok", "Err", "dropped"}
            /\ outPc[c] \in {"Ok", "Err", "dropped"}]_vars

\* the input loop failed while the output loop was in the middle of a write
C13_Witness ==
  \E c \in Conns :
    /\ pc[c] = "returned"
    /\ inPc[c] = "Err"
    /\ outPc[c] = "dropped"
    /\ Proj(log[c], "out") # <<>>
    /\ Proj(log[c], "out")[Len(Proj(log[c], "out"))] = Call("write_all", "out")

\* the session hooks the output loop awaits (a write and a flush are not hooks)
OutputHooks == {"on_out_timeout", "on_io_error", "emit_logout"}

\* C14: no two hook invocations of one connection overlap: while a hook
\* called by one loop has not returned, the other loop is in no hook. The
\* code does not ensure it: a hook is awaited, and while it is suspended
\* try_join! polls the other loop, which may call a hook of its own.
C14_NoHookOverlap ==
  \A c \in Conns : ~(inPc[c] \in InputHooks /\ outPc[c] \in OutputHooks)

\* the entry e occurs once in lg, after both table insertions and before
\* everything the two loops did
OnceAfterRegistration(lg, e) ==
  /\ Cardinality({i \in DOMAIN lg : lg[i] = e}) = 1
  /\ \A i \in DOMAIN lg :
       lg[i] = e
         => /\ \E j, k \in 1..(i - 1) :
                 /\ j < k
                 /\ lg[j] = Call("register_sender", "boot")
                 /\ lg[k] = Call("active_insert", "boot")
            /\ \A m \in DOMAIN lg : lg[m].by \in {"in", "out"} => m > i

\* C15: the initiator calls send_logon_request exactly once, after the
\* session was registered and inserted into the active table and before
\* either loop does anything.
C15_LogonRequestBeforeLoops ==
  \A c \in Conns :
    role[c] = "initiator" =>
      /\ CountOp(log[c], "send_logon_request") <= 1
      /\ InLoopPhase(c) => OnceAfterRegistration(log[c], Call("send_logon_request", "boot"))

C15_Witness ==
  \E c \in Conns :
    /\ role[c] = "initiator"
    /\ pc[c] = "loops"
    /\ CountOp(log[c], "send_logon_request") = 1
    /\ \E i \in DOMAIN log[c] : log[c][i] = Call("on_message_in", "in")
    /\ \E i \in DOMAIN log[c] : log[c][i] = Call("write_all", "out")

C17_SendRoutesOrReturnsMessage ==
  [][nsend' # nsend =>
       /\ senders' = senders
       /\ sendRes'.arg.kind = "raw" => sendRes'.id = sendRes'.arg.sid
       /\ IF senders[sendRes'.id] = None
          THEN /\ ~sendRes'.ok
               /\ sendRes'.err = sendRes'.arg
               /\ chan' = chan
          ELSE /\ sendRes'.ok
               /\ chan' = [chan EXCEPT ![senders[sendRes'.id]] =
                             Append(@, sendRes'.arg)]]_vars

\* a raw message for an identity without an entry came back while another
\* identity was registered, and nothing was enqueued
C17_Witness ==
  /\ nsend = 1
  /\ ~sendRes.ok
  /\ sendRes.arg.kind = "raw"
  /\ sendRes.err = sendRes.arg
  /\ sendRes.id \in Configured
  /\ \E i \in SessionIds : senders[i] # None
  /\ \A c \in Conns : chan[c] = <<>>

\* C18: while a connection is in its loop phase the registry entry of its
\* identity is the sender of its own channel. The code does not ensure it: a
\* second connection of the same identity is not registered, and its cleanup
\* removes the entry of the first.
C18_OwnSenderWhileRunning ==
  \A c \in Conns : pc[c] = "loops" => senders[sid[c]] = c

\* the identities that have an entry
Keys(t) == {i \in SessionIds : t[i] # None}

\* C19: at every suspension point the sender registry and the active-sessions
\* table hold the same identities.
C19_SameIdentities == Keys(senders) = Keys(active)

\* two running connections of one identity: one holds the registry entry, the
\* other the active-table entry
C19_Witness ==
  \E c, d \in Conns :
    /\ c # d
    /\ pc[c] = "loops" /\ pc[d] = "loops"
    /\ sid[c] = sid[d]
    /\ senders[sid[c]] = c
    /\ active[sid[c]] = d
    /\ Keys(senders) = {sid[c]}

\* C20: if on_message_in signalled Disconnect for the acceptor's first
\* message, the input loop takes no event. The code does not honour it: the
\* value returned at lines 150-153 is dropped and the input loop is started.
C20_FirstDisconnectHonoured ==
  \A c \in Conns :
    (\E i \in DOMAIN log[c] : log[c][i] = Returned("on_message_in", "boot", "Disconnect"))
      => Proj(log[c], "in") = <<>>

====
